---- MODULE Spec2Model ----
(***************************************************************************)
(* Model of the CPT (Combustion Inc. predictive thermometer) integration:  *)
(*   - the byte decoder of cpt_lib.py (advertisement payloads),            *)
(*   - the telemetry mapping and the connect/subscribe state machine of    *)
(*     CPTBluetoothCoordinator (coordinator.py),                           *)
(*   - the teardown of async_unload_entry (__init__.py).                   *)
(*                                                                         *)
(* Python values are modelled as follows.  bytes are sequences of          *)
(* integers 0..255 (Python index i is TLA+ index i+1).  An object is a     *)
(* record whose fields are exactly the attributes its __init__ sets, so    *)
(* that reading an attribute that was never set is visible (GetAttr).  A   *)
(* raised exception is the record [raised |-> <exception type>].  Floats   *)
(* that hold temperatures are kept in hundredths of a degree (the decoder  *)
(* only produces multiples of 0.05).                                       *)
(***************************************************************************)
EXTENDS Integers, Sequences, FiniteSets, TLC

(* Python's None, where the other values are wrapped (Num, Str) *)
PyNone == [none |-> TRUE]

Num(n) == [num |-> n]

Str(text) == [str |-> text]

(* A call either returns a value, Ok(v), or raises, Raise(type). *)
Raise(type) == [raised |-> type]

Ok(v) == [value |-> v]

IsRaised(v) == "raised" \in DOMAIN v

(* obj.name: AttributeError when __init__ never set that attribute. *)
HasAttr(obj, name) == name \in DOMAIN obj

GetAttr(obj, name) ==
    IF HasAttr(obj, name) THEN Ok(obj[name]) ELSE Raise("AttributeError")

(***************************************************************************)
(* Integer bit operations (&, |, <<, >>) on non-negative integers.         *)
(***************************************************************************)
RECURSIVE BitAnd(_, _)
BitAnd(a, b) ==
    IF a = 0 \/ b = 0 THEN 0
    ELSE (a % 2) * (b % 2) + 2 * BitAnd(a \div 2, b \div 2)

RECURSIVE BitOr(_, _)
BitOr(a, b) ==
    IF a = 0 THEN b
    ELSE IF b = 0 THEN a
    ELSE (IF a % 2 = 1 \/ b % 2 = 1 THEN 1 ELSE 0) + 2 * BitOr(a \div 2, b \div 2)

Shl(a, n) == a * (2 ^ n)

Shr(a, n) == a \div (2 ^ n)

(* mutant: the reversal is forgotten *)
ReverseForgotten(s) == s

(* bytes[::-1] *)
Reverse(s) == [i \in 1..Len(s) |-> s[Len(s) + 1 - i]]

(* bytes[i] and bytes[a:b] with Python's 0-based indices *)
At(bytes, i) == bytes[i + 1]

Slice(bytes, a, b) == SubSeq(bytes, a + 1, b)

(* list.insert(0, x) *)
Insert0(list, x) == <<x>> \o list

(***************************************************************************)
(* cpt_lib.py: enumerations and field parsers                              *)
(***************************************************************************)
parse_product_type(product_type) ==
    IF product_type = 0 THEN "UNKNOWN"
    ELSE IF product_type = 1 THEN "PREDICTIVE_PROBE"
    ELSE IF product_type = 2 THEN "KITCHEN_TIMER"
    ELSE "UNKNOWN"

(* bytes.hex() renders each byte as two lowercase hexadecimal digits. *)
HexDigits == <<"0", "1", "2", "3", "4", "5", "6", "7",
               "8", "9", "a", "b", "c", "d", "e", "f">>

RECURSIVE Hex(_)
Hex(bytes) ==
    IF bytes = <<>> THEN <<>>
    ELSE <<HexDigits[(Head(bytes) \div 16) + 1], HexDigits[(Head(bytes) % 16) + 1]>>
         \o Hex(Tail(bytes))

(* str.upper() on the characters hex() can produce *)
UpperChar(c) ==
    CASE c = "a" -> "A" [] c = "b" -> "B" [] c = "c" -> "C"
      [] c = "d" -> "D" [] c = "e" -> "E" [] c = "f" -> "F"
      [] OTHER -> c

(* mutant: the digits are left in lower case *)
UpperForgotten(str) == str

Upper(str) == [i \in 1..Len(str) |-> UpperChar(str[i])]

get_serial(raw_serial) == Upper(Hex(Reverse(raw_serial)))

(* Lines 103-133: the eight inserts, on the reversed bytes. *)
ExtractCounts(temp_bytes) ==
    LET b(i) == At(temp_bytes, i)
        r0 == <<>>
        r1 == Insert0(r0, BitOr(Shl(BitAnd(b(0), 255), 5), Shr(BitAnd(b(1), 248), 3)))
        r2 == Insert0(r1, BitOr(BitOr(Shl(BitAnd(b(1), 7), 10),
                                      Shl(BitAnd(b(2), 255), 2)),
                                Shr(BitAnd(b(3), 192), 6)))
        r3 == Insert0(r2, BitOr(Shl(BitAnd(b(3), 63), 7), Shr(BitAnd(b(4), 254), 1)))
        r4 == Insert0(r3, BitOr(BitOr(Shl(BitAnd(b(4), 1), 12),
                                      Shl(BitAnd(b(5), 255), 4)),
                                Shr(BitAnd(b(6), 240), 4)))
        r5 == Insert0(r4, BitOr(BitOr(Shl(BitAnd(b(6), 15), 9),
                                      Shl(BitAnd(b(7), 255), 1)),
                                Shr(BitAnd(b(8), 128), 7)))
        r6 == Insert0(r5, BitOr(Shl(BitAnd(b(8), 127), 6), Shr(BitAnd(b(9), 252), 2)))
        r7 == Insert0(r6, BitOr(BitOr(Shl(BitAnd(b(9), 3), 11),
                                      Shl(BitAnd(b(10), 255), 3)),
                                Shr(BitAnd(b(11), 224), 5)))
        r8 == Insert0(r7, BitOr(Shl(BitAnd(b(11), 31), 8), BitAnd(b(12), 255)))
    IN  r8

(* Lines 102-133: the eight 13-bit counts, before the affine map. *)
RawCounts(temp_bytes) == ExtractCounts(Reverse(temp_bytes))

(* mutant: the temperature is cut to whole degrees *)
ToCelsiusWholeDegrees(temp) == ((temp * 5) \div 100) * 100 - 2000

(* temp * 0.05 - 20.0, in hundredths of a degree *)
ToCelsius(temp) == temp * 5 - 2000

(* line 135: [temp * 0.05 - 20.0 for temp in raw_temps] *)
Temperatures(raw_temps) == [i \in 1..Len(raw_temps) |-> ToCelsius(raw_temps[i])]

parse_raw_temp_data(temp_bytes) == Temperatures(RawCounts(temp_bytes))

(* list[i] with a 0-based index: IndexError outside the list *)
ListGet(list, i) ==
    IF i >= 0 /\ i < Len(list) THEN Ok(list[i + 1]) ELSE Raise("IndexError")

ProbeTemperatures(temperatures) ==
    [temperatures |-> temperatures,
     t1 |-> temperatures[1], t2 |-> temperatures[2],
     t3 |-> temperatures[3], t4 |-> temperatures[4],
     t5 |-> temperatures[5], t6 |-> temperatures[6],
     t7 |-> temperatures[7], t8 |-> temperatures[8]]

(* mutant: the surface and ambient windows are not offset *)
ParseVirtualSensorsNoOffset(virtual_sensors, raw_temps) ==
    LET core == ListGet(raw_temps, BitAnd(virtual_sensors, 7))
        surface == ListGet(raw_temps, BitAnd(Shr(virtual_sensors, 3), 3))
        ambient == ListGet(raw_temps, BitAnd(Shr(virtual_sensors, 5), 3))
    IN  Ok([core |-> core.value, surface |-> surface.value,
            ambient |-> ambient.value])

parse_virtual_sensors(virtual_sensors, raw_temps) ==
    LET core_index == BitAnd(virtual_sensors, 7)
        surface_index == BitAnd(Shr(virtual_sensors, 3), 3)
        ambient_index == BitAnd(Shr(virtual_sensors, 5), 3)
        core == ListGet(raw_temps, core_index)
        surface == ListGet(raw_temps, surface_index + 3)
        ambient == ListGet(raw_temps, ambient_index + 4)
    IN  IF IsRaised(core) THEN core
        ELSE IF IsRaised(surface) THEN surface
        ELSE IF IsRaised(ambient) THEN ambient
        ELSE Ok([core |-> core.value, surface |-> surface.value,
                 ambient |-> ambient.value])

(* mutant: Grey is not recognised *)
ParseColourWithoutGrey(colour_id) ==
    IF colour_id = 0 THEN "YELLOW" ELSE "UNKNOWN"

parse_colour(colour_id) ==
    IF colour_id = 0 THEN "YELLOW"
    ELSE IF colour_id = 1 THEN "GREY"
    ELSE "UNKNOWN"

(* mutant: mode 3 is not recognised *)
ParseModeWithoutError(mode) ==
    IF mode = 0 THEN Ok("NORMAL")
    ELSE IF mode = 1 THEN Ok("INSTANT_READ")
    ELSE IF mode = 2 THEN Ok("RESERVED")
    ELSE Raise("ValueError")

parse_mode(mode) ==
    IF mode = 0 THEN Ok("NORMAL")
    ELSE IF mode = 1 THEN Ok("INSTANT_READ")
    ELSE IF mode = 2 THEN Ok("RESERVED")
    ELSE IF mode = 3 THEN Ok("ERROR")
    ELSE Raise("ValueError")

parse_battery_status(status_id) ==
    IF status_id = 0 THEN Ok("OK")
    ELSE IF status_id = 1 THEN Ok("LOW")
    ELSE Raise("ValueError")

(***************************************************************************)
(* CptAdvertisingData.__init__: the decoded object, or the exception.      *)
(* The attribute names are the ones the constructor assigns.               *)
(***************************************************************************)
(* lines 208-234, given the values of the fallible calls *)
AdvertisingDataFields(advertisting_data, raw_temps, mode, batery, sensors) ==
    LET raw_product_type == At(advertisting_data, 0)
        raw_serial_number == Slice(advertisting_data, 1, 5)
        mode_colour_and_id == At(advertisting_data, 18)
        color_id == BitAnd(Shr(mode_colour_and_id, 2), 7)
    IN  IF IsRaised(mode) THEN mode
        ELSE IF IsRaised(batery) THEN batery
        ELSE IF IsRaised(sensors) THEN sensors
        ELSE [product_type |-> parse_product_type(raw_product_type),
              serial |-> get_serial(raw_serial_number),
              raw_temperatures |-> ProbeTemperatures(raw_temps),
              mode |-> mode.value,
              colour |-> parse_colour(color_id),
              probe_id |-> BitAnd(Shr(mode_colour_and_id, 5), 7),
              batery_status |-> batery.value,
              virtual_sensors |-> sensors.value]

DecodeWithTemps(advertisting_data, raw_temps) ==
    LET mode_colour_and_id == At(advertisting_data, 18)
        battery_status_virtual_sensors == At(advertisting_data, 19)
        mode_id == BitAnd(mode_colour_and_id, 3)
        battery_status == BitAnd(Shr(battery_status_virtual_sensors, 7), 1)
        virtual_sensors == Shr(battery_status_virtual_sensors, 1)
    IN  AdvertisingDataFields(advertisting_data, raw_temps,
                              parse_mode(mode_id),
                              parse_battery_status(battery_status),
                              parse_virtual_sensors(virtual_sensors, raw_temps))

CptAdvertisingData(advertisting_data) ==
    IF Len(advertisting_data) < 20 THEN Raise("ValueError")
    ELSE DecodeWithTemps(advertisting_data,
                         parse_raw_temp_data(Slice(advertisting_data, 5, 18)))

(***************************************************************************)
(* const.py and sensor_definitions.py                                      *)
(***************************************************************************)
COMBUSTION_MANUFACTURER_ID == 2503

(* keys of RAW_TEMP_ENTITIES: f"t{i}_temperature" for i in range(1, 8) *)
RAW_TEMP_ENTITIES == [i \in 1..7 |-> "t" \o ToString(i) \o "_temperature"]

(* entity.key.replace("_temperature", "") *)
TempAttribute(key) ==
    CASE key = "t1_temperature" -> "t1" [] key = "t2_temperature" -> "t2"
      [] key = "t3_temperature" -> "t3" [] key = "t4_temperature" -> "t4"
      [] key = "t5_temperature" -> "t5" [] key = "t6_temperature" -> "t6"
      [] key = "t7_temperature" -> "t7" [] key = "t8_temperature" -> "t8"
      [] OTHER -> key

(* mutant: the instant-read description reuses the key of READY_IN_TIME *)
InstantReadKeyOfReadyInTime == "ready_in_time"

INSTANT_READ_TEMP == "instant_read_temp"

BATTERY_STATUS == "battery_status"

VIRTUAL_CORE == "core_temperature"

VIRTUAL_SURFACE == "surface_temperature"

VIRTUAL_AMBIENT == "ambient_temperature"

COOKING_TO_TEMP == "cooking_to_temp"

READY_IN_TIME == "ready_in_time"

PERCENT_THROUGH_COOK == "percent_through_cook"

PREDICTION_STATUS == "prediction_status"

(* The PREDICTION_STATE_* labels: imported from const.py, which does not   *)
(* define them; the values are the ones of the prediction-status table.    *)
PREDICTION_STATE_PREDICTING == "predicting"

PREDICTION_STATE_NOT_INSERTED == "not_inserted"

PREDICTION_STATE_PENDING == "pending"

PREDICTION_STATE_INSERTED == "inserted"

PREDICTION_STATE_READY == "ready"

PREDICTION_STATE_OTHER == "other"

PREDICTION_STATE_NOT_PREDICTING == "not_predicting"

(***************************************************************************)
(* coordinator.py: the telemetry mapping.  A mapping is a function from    *)
(* keys to Num/Str/PyNone values.                                          *)
(***************************************************************************)
EmptyDict == [k \in {} |-> PyNone]

DictSet(d, k, v) == [x \in (DOMAIN d) \cup {k} |-> IF x = k THEN v ELSE d[x]]

_get_battery_status_text(advertising_data) ==
    LET battery_status == GetAttr(advertising_data, "battery_status")
    IN  IF IsRaised(battery_status) THEN battery_status
        ELSE IF battery_status.value = "OK" THEN Ok("OK")
        ELSE IF battery_status.value = "LOW" THEN Ok("Low")
        ELSE Ok("Unknown")

(* The loop over RAW_TEMP_ENTITIES, entity i onwards. *)
RECURSIVE RawTempData(_, _, _)
RawTempData(advertising_data, data, i) ==
    IF i > Len(RAW_TEMP_ENTITIES) THEN Ok(data)
    ELSE
    LET key == RAW_TEMP_ENTITIES[i]
        raw_temperatures == GetAttr(advertising_data, "raw_temperatures")
        temp == IF IsRaised(raw_temperatures) THEN raw_temperatures
                ELSE GetAttr(raw_temperatures.value, TempAttribute(key))
    IN  IF IsRaised(temp) THEN temp
        ELSE RawTempData(advertising_data, DictSet(data, key, Num(temp.value)), i + 1)

VirtualData(advertising_data, data) ==
    LET virtual_sensors == GetAttr(advertising_data, "virtual_sensors")
    IN  IF IsRaised(virtual_sensors) THEN virtual_sensors
        ELSE LET core == GetAttr(virtual_sensors.value, "core")
                 ambient == GetAttr(virtual_sensors.value, "ambient")
                 surface == GetAttr(virtual_sensors.value, "surface")
             IN  IF IsRaised(core) THEN core
                 ELSE IF IsRaised(ambient) THEN ambient
                 ELSE IF IsRaised(surface) THEN surface
                 ELSE Ok(DictSet(DictSet(DictSet(data,
                             VIRTUAL_CORE, Num(core.value)),
                             VIRTUAL_AMBIENT, Num(ambient.value)),
                             VIRTUAL_SURFACE, Num(surface.value)))

(* lines 127-147: the mapping as built before the battery status is added *)
ModeData(advertising_data) ==
    LET mode == GetAttr(advertising_data, "mode")
        instant ==
            LET raw_temperatures == GetAttr(advertising_data, "raw_temperatures")
                t1 == IF IsRaised(raw_temperatures) THEN raw_temperatures
                      ELSE GetAttr(raw_temperatures.value, "t1")
            IN  IF IsRaised(t1) THEN t1
                ELSE Ok(DictSet(EmptyDict, INSTANT_READ_TEMP, Num(t1.value)))
        normal ==
            LET raw == RawTempData(advertising_data, EmptyDict, 1)
            IN  IF IsRaised(raw) THEN raw
                ELSE VirtualData(advertising_data, raw.value)
    IN  IF IsRaised(mode) THEN mode
        ELSE IF mode.value = "INSTANT_READ" THEN instant ELSE normal

(* line 150, then the return at line 152 *)
WithBatteryStatus(advertising_data, data) ==
    LET battery == _get_battery_status_text(advertising_data)
    IN  IF IsRaised(data) THEN data
        ELSE IF IsRaised(battery) THEN battery
        ELSE Ok(DictSet(data.value, BATTERY_STATUS, Str(battery.value)))

_get_data_from_advertisement(advertising_data) ==
    WithBatteryStatus(advertising_data, ModeData(advertising_data))

(* mutant: the Warming state has no label of its own *)
PredictionStatusLabelWithoutPending(state) ==
    IF state = "PREDICTING" THEN PREDICTION_STATE_PREDICTING
    ELSE IF state = "PROBE_NOT_INSERTED" THEN PREDICTION_STATE_NOT_INSERTED
    ELSE IF state = "PROBE_INSERTED" THEN PREDICTION_STATE_INSERTED
    ELSE IF state = "REMOVAL_PREDICTION_DONE" THEN PREDICTION_STATE_READY
    ELSE PREDICTION_STATE_OTHER

(* lines 92-112: the label the if/elif chain stores under PREDICTION_STATUS *)
PredictionStatusLabel(state) ==
    IF state = "PREDICTING" THEN PREDICTION_STATE_PREDICTING
    ELSE IF state = "PROBE_NOT_INSERTED" THEN PREDICTION_STATE_NOT_INSERTED
    ELSE IF state = "WARMING" THEN PREDICTION_STATE_PENDING
    ELSE IF state = "PROBE_INSERTED" THEN PREDICTION_STATE_INSERTED
    ELSE IF state = "REMOVAL_PREDICTION_DONE" THEN PREDICTION_STATE_READY
    ELSE PREDICTION_STATE_OTHER

(* lines 85-112: the mapping in TimeToRemoval mode *)
TimeToRemovalData(ps) ==
    LET d1 == DictSet(EmptyDict, COOKING_TO_TEMP,
                      Num(ps.prediction_set_point_temperature))
        d2 == DictSet(d1, PERCENT_THROUGH_COOK,
                      Num(ps.pecentage_to_removal * 100))
        d3 == DictSet(d2, READY_IN_TIME, PyNone)
        d4 == IF ps.state = "PREDICTING"
              THEN DictSet(d3, READY_IN_TIME, Num(ps.prediction_value_seconds))
              ELSE d3
    IN  DictSet(d4, PREDICTION_STATUS, Str(PredictionStatusLabel(ps.state)))

(* mutant: outside TimeToRemoval only the status is put into the mapping *)
NotPredictingDataStatusOnly ==
    DictSet(EmptyDict, PREDICTION_STATUS, Str(PREDICTION_STATE_NOT_PREDICTING))

(* lines 113-118: the mapping in every other mode *)
NotPredictingData ==
    DictSet(DictSet(DictSet(DictSet(EmptyDict,
        READY_IN_TIME, PyNone),
        PERCENT_THROUGH_COOK, PyNone),
        COOKING_TO_TEMP, PyNone),
        PREDICTION_STATUS, Str(PREDICTION_STATE_NOT_PREDICTING))

_get_data_from_probe_status_notification(probe_status) ==
    LET ps == probe_status.prediction_status
    IN  IF ps.mode = "TIME_TO_REMOVAL" THEN TimeToRemovalData(ps)
        ELSE NotPredictingData

IsNone(v) == "none" \in DOMAIN v

(* service_info.advertisement.manufacturer_data.get(id): Ok(bytes) or None *)
DictGet(d, k) == IF k \in DOMAIN d THEN Ok(d[k]) ELSE PyNone

(***************************************************************************)
(* Bounds of the model                                                     *)
(***************************************************************************)
MaxTasks == 2

MaxUnloads == 2

MaxPublishes == 1

(* longest advertisement buffer of the decoder inputs *)
MaxAdvLen == 22

(* longest sequence of publishes delivered to the sensors *)
MaxUpdates == 3

(***************************************************************************)
(* Inputs: advertisement buffers and sightings (BluetoothServiceInfoBleak) *)
(***************************************************************************)
(* product type 1, serial bytes, 13 temperature bytes, mode/colour/id,     *)
(* battery/virtual sensors                                                 *)
BaseAdv == <<1, 18, 52, 171, 205,
             72, 3, 105, 32, 13, 164, 161, 52, 200, 6, 0, 0, 0,
             0, 0>>

WithByte(bytes, i, v) == [bytes EXCEPT ![i + 1] = v]

(* the probe in Normal mode, in InstantRead mode, a kitchen timer, a       *)
(* 15-byte buffer                                                          *)
AdvBuffers ==
    { BaseAdv,
      WithByte(BaseAdv, 18, 1),
      WithByte(BaseAdv, 0, 2),
      SubSeq(BaseAdv, 1, 15) }

(* the product codes 0 (Unknown) and 9 (unrecognised) *)
OtherProductBuffers == { WithByte(BaseAdv, 0, p) : p \in {0, 9} }

ManufacturerData ==
    { COMBUSTION_MANUFACTURER_ID :> b : b \in AdvBuffers }
        \cup { 76 :> BaseAdv }   \* another manufacturer: no entry for 2503

ServiceInfos ==
    { [connectable |-> c, manufacturer_data |-> m] :
        c \in BOOLEAN, m \in ManufacturerData }

(* CptAdvertisingData(bytes); the decodings of the model's buffers are     *)
(* computed once                                                           *)
DecodedBuffers ==
    [b \in AdvBuffers \cup OtherProductBuffers |-> CptAdvertisingData(b)]

NewCptAdvertisingData(bytes) ==
    IF bytes \in DOMAIN DecodedBuffers THEN DecodedBuffers[bytes]
    ELSE CptAdvertisingData(bytes)

_extract_advertisement(service_info) ==
    LET raw_advertisement_data ==
            DictGet(service_info.manufacturer_data, COMBUSTION_MANUFACTURER_ID)
    IN  IF IsNone(raw_advertisement_data) THEN Raise("ValueError")
        ELSE NewCptAdvertisingData(raw_advertisement_data.value)

(* decoded probe-status notifications (CptProbeStatus); set point in       *)
(* hundredths of a degree, percentage in hundredths, time in seconds       *)
ProbeStatuses ==
    { [prediction_status |->
          [mode |-> m, state |-> st,
           prediction_set_point_temperature |-> 6300,
           pecentage_to_removal |-> 50,
           prediction_value_seconds |-> 120]] :
        m \in {"NONE", "TIME_TO_REMOVAL"},
        st \in {"PREDICTING"} }

(***************************************************************************)
(* State                                                                   *)
(***************************************************************************)
VARIABLES
    is_currently_subscribing,  \* CPTBluetoothCoordinator.is_currently_subscribing
    maybe_client,              \* CPTBluetoothCoordinator._maybe_client (NoClient: None)
    clients,                   \* the BleakClient objects created so far
    tasks,                     \* the _maybe_subscribe_to_notifications tasks
    data,                      \* DataUpdateCoordinator.data, the last published mapping
    publishes,                 \* number of async_set_updated_data calls
    advert,                    \* the last call of async_process_advertisement
    unload,                    \* position of the teardown
    registered,                \* the advertisement callback is registered
    buf,                       \* decoder input (SpecDecode)
    decoded,                   \* decoder output (SpecDecode)
    notified,                  \* mapper input (SpecNotify)
    sensor_data,               \* mapper output (SpecDecode, SpecNotify)
    entities,                  \* the CPTSensor entities, by key (SpecSensors)
    history                    \* the mappings published so far (SpecSensors)

vars == <<is_currently_subscribing, maybe_client, clients, tasks, data,
          publishes, advert, unload, registered, buf, decoded,
          notified, sensor_data, entities, history>>

coordVars == <<is_currently_subscribing, maybe_client, clients, tasks, data,
               publishes, advert, unload, registered>>

sinkVars == <<entities, history>>

decodeVars == <<buf, decoded, notified, sensor_data, sinkVars>>

NoClient == 0

(* BleakClient(connectable_device) followed by connect() *)
NewClient ==
    [is_connected |-> FALSE, notifying |-> FALSE,
     connect_calls |-> 1, disconnect_calls |-> 0]

(* create_sensor_entities_for_device with physical and virtual sensors     *)
(* included: the key of every sensor description                           *)
SensorKeys ==
    {INSTANT_READ_TEMP, BATTERY_STATUS, COOKING_TO_TEMP, READY_IN_TIME,
     PERCENT_THROUGH_COOK, PREDICTION_STATUS}
        \cup { RAW_TEMP_ENTITIES[i] : i \in DOMAIN RAW_TEMP_ENTITIES }
        \cup {VIRTUAL_AMBIENT, VIRTUAL_CORE, VIRTUAL_SURFACE}

(* a CPTSensor after construction: no native value, no state written *)
NewSensor == [native_value |-> PyNone, writes |-> 0]

SinkInit ==
    /\ entities = [k \in SensorKeys |-> NewSensor]
    /\ history = <<>>

CoordInit ==
    /\ is_currently_subscribing = FALSE
    /\ maybe_client = NoClient
    /\ clients = <<>>
    /\ tasks = <<>>
    /\ data = PyNone
    /\ publishes = 0
    /\ advert = [result |-> "none", connectable |-> FALSE]
    /\ unload = [pc |-> "loaded", calls |-> 0, entry |-> FALSE, client |-> NoClient,
                 raced |-> FALSE]
    /\ registered = TRUE

Init ==
    /\ CoordInit
    /\ buf = <<>>
    /\ decoded = PyNone
    /\ notified = PyNone
    /\ sensor_data = PyNone
    /\ SinkInit

(***************************************************************************)
(* coordinator.py: connection state                                        *)
(***************************************************************************)
(* mutant: the connection test is negated *)
GetIsSubscribedNegated ==
    maybe_client # NoClient /\ ~clients[maybe_client].is_connected

(* mutant: the link state of the held client is not looked at *)
GetIsSubscribedIgnoringLink == maybe_client # NoClient

_get_is_subscribed ==
    maybe_client # NoClient /\ clients[maybe_client].is_connected

is_subscribed_to_notifications == _get_is_subscribed

(* mutant: the guard ignores is_currently_subscribing *)
SubscribeGuardWithoutFlag == is_subscribed_to_notifications

(* mutant: the guard ignores is_subscribed_to_notifications *)
SubscribeGuardWithoutSubscribed == is_currently_subscribing

(* line 162: the early return of _maybe_subscribe_to_notifications *)
SubscribeGuard == is_subscribed_to_notifications \/ is_currently_subscribing

(* async_set_updated_data(mapping) *)
Publish(mapping) ==
    /\ publishes < MaxPublishes
    /\ data' = mapping
    /\ publishes' = publishes + 1

(* hass.loop.create_task(self._maybe_subscribe_to_notifications(service_info)) *)
CreateTask(connectable) ==
    /\ Len(tasks) < MaxTasks
    /\ tasks' = Append(tasks, [pc |-> "scheduled", connectable |-> connectable])

(* history: a subscribe task was created after the teardown had begun *)
NoteRace == unload' = [unload EXCEPT !.raced = @ \/ unload.calls > 0]

(***************************************************************************)
(* async_process_advertisement, as a function of the sighting: what it     *)
(* raises, what it publishes, whether it creates the subscribe task.       *)
(***************************************************************************)
Outcome(result, publish, create_task) ==
    [result |-> result, publish |-> publish, create_task |-> create_task]

(* mutant: the subscribe task is created before the device is looked at *)
ProcessExtractedSubscribingFirst(service_info, advertisement) ==
    IF IsRaised(advertisement) THEN Outcome(advertisement.raised, PyNone, FALSE)
    ELSE Outcome("AttributeError", PyNone, service_info.connectable)

(* lines 200-213, given the result of _extract_advertisement (line 199) *)
ProcessExtracted(service_info, advertisement) ==
    LET device == GetAttr(advertisement, "device")
        product_type == GetAttr(device.value, "product_type")
        mapping == _get_data_from_advertisement(advertisement)
    IN  IF IsRaised(advertisement) THEN Outcome(advertisement.raised, PyNone, FALSE)
        ELSE IF IsRaised(device) THEN Outcome(device.raised, PyNone, FALSE)
        ELSE IF IsRaised(product_type) THEN Outcome(product_type.raised, PyNone, FALSE)
        ELSE IF product_type.value # "PREDICTIVE_PROBE"
        THEN Outcome("ignored", PyNone, FALSE)
        ELSE IF IsRaised(mapping) THEN Outcome(mapping.raised, PyNone, FALSE)
        ELSE Outcome("published", Ok(mapping.value), service_info.connectable)

ProcessAdvertisement(service_info) ==
    ProcessExtracted(service_info, _extract_advertisement(service_info))

(* the handler's effect on the coordinator, given its outcome *)
HandleSighting(service_info, out) ==
    /\ advert' = [result |-> out.result, connectable |-> service_info.connectable]
    /\ IF IsNone(out.publish) THEN UNCHANGED <<data, publishes>>
       ELSE Publish(out.publish.value)
    /\ IF out.create_task
       THEN CreateTask(service_info.connectable) /\ NoteRace
       ELSE UNCHANGED <<tasks, unload>>
    /\ UNCHANGED <<is_currently_subscribing, maybe_client, clients, registered>>

ApplyOutcome(service_info, out) ==
    /\ HandleSighting(service_info, out)
    /\ UNCHANGED decodeVars

async_process_advertisement(service_info) ==
    /\ registered
    /\ ApplyOutcome(service_info, ProcessAdvertisement(service_info))

(***************************************************************************)
(* _maybe_subscribe_to_notifications, one action per run between awaits.   *)
(* The coroutine is also started directly (ScheduleSubscribe), with a      *)
(* connectable or a passive service_info.                                  *)
(***************************************************************************)
ScheduleSubscribe(connectable) ==
    /\ registered
    /\ CreateTask(connectable)
    /\ NoteRace
    /\ UNCHANGED <<is_currently_subscribing, maybe_client, clients, data,
                   publishes, advert, registered, decodeVars>>

SetPc(t, pc) == tasks' = [tasks EXCEPT ![t].pc = pc]

(* lines 162-180: from the guard to the suspension in connect() *)
TaskStart(t) ==
    /\ tasks[t].pc = "scheduled"
    /\ IF SubscribeGuard
       THEN /\ SetPc(t, "returned")
            /\ UNCHANGED <<is_currently_subscribing, maybe_client, clients>>
       ELSE /\ is_currently_subscribing' = TRUE
            /\ \E found \in BOOLEAN :   \* async_ble_device_from_address(...)
                 IF tasks[t].connectable \/ found
                 THEN /\ clients' = Append(clients, NewClient)
                      /\ maybe_client' = Len(clients) + 1
                      /\ SetPc(t, "connect")
                 ELSE /\ SetPc(t, "raised")   \* RuntimeError
                      /\ UNCHANGED <<maybe_client, clients>>
    /\ UNCHANGED <<data, publishes, advert, unload, registered, decodeVars>>

(* connect() returns; start_notify() is called and suspends *)
ConnectReturns(t) ==
    /\ tasks[t].pc = "connect"
    /\ clients' = [clients EXCEPT ![maybe_client].is_connected = TRUE]
    /\ SetPc(t, "start_notify")
    /\ UNCHANGED <<is_currently_subscribing, maybe_client, data, publishes,
                   advert, unload, registered, decodeVars>>

(* connect() raises: the exception leaves the coroutine *)
ConnectRaises(t) ==
    /\ tasks[t].pc = "connect"
    /\ SetPc(t, "raised")
    /\ UNCHANGED <<is_currently_subscribing, maybe_client, clients, data,
                   publishes, advert, unload, registered, decodeVars>>

(* start_notify() returns (the link is up); line 192 *)
StartNotifyReturns(t) ==
    /\ tasks[t].pc = "start_notify"
    /\ clients[maybe_client].is_connected
    /\ clients' = [clients EXCEPT ![maybe_client].notifying = TRUE]
    /\ is_currently_subscribing' = FALSE
    /\ SetPc(t, "done")
    /\ UNCHANGED <<maybe_client, data, publishes, advert, unload, registered,
                   decodeVars>>

(* start_notify() raises: the exception leaves the coroutine *)
StartNotifyRaises(t) ==
    /\ tasks[t].pc = "start_notify"
    /\ SetPc(t, "raised")
    /\ UNCHANGED <<is_currently_subscribing, maybe_client, clients, data,
                   publishes, advert, unload, registered, decodeVars>>

(* the transport link of a connected client drops *)
LinkDrop(c) ==
    /\ clients[c].is_connected
    /\ clients' = [clients EXCEPT ![c].is_connected = FALSE, ![c].notifying = FALSE]
    /\ UNCHANGED <<is_currently_subscribing, maybe_client, tasks, data,
                   publishes, advert, unload, registered, decodeVars>>

(* notification_callback: a subscribed client delivers a probe status *)
notification_callback(c, probe_status) ==
    /\ clients[c].is_connected
    /\ clients[c].notifying
    /\ Publish(_get_data_from_probe_status_notification(probe_status))
    /\ UNCHANGED <<is_currently_subscribing, maybe_client, clients, tasks,
                   advert, unload, registered, decodeVars>>

(***************************************************************************)
(* Teardown: async_unload_entry and maybe_disconnect_bt_client             *)
(***************************************************************************)
(* maybe_disconnect_bt_client is called: by async_unload_entry the first   *)
(* time, directly afterwards                                               *)
maybe_disconnect_bt_client ==
    /\ unload.pc \in {"loaded", "unloaded"}
    /\ unload.calls < MaxUnloads
    /\ LET entry == unload.pc = "loaded"
       IN  IF maybe_client # NoClient /\ clients[maybe_client].is_connected
           THEN /\ unload' = [unload EXCEPT !.pc = "disconnect",
                                             !.calls = @ + 1,
                                             !.entry = entry,
                                             !.client = maybe_client]
                /\ clients' = [clients EXCEPT ![maybe_client].disconnect_calls = @ + 1]
           ELSE /\ unload' = [unload EXCEPT
                                  !.pc = IF entry THEN "unload_platforms"
                                         ELSE "unloaded",
                                  !.calls = @ + 1,
                                  !.entry = entry,
                                  !.client = NoClient]
                /\ UNCHANGED clients
    /\ UNCHANGED <<is_currently_subscribing, maybe_client, tasks, data,
                   publishes, advert, registered, decodeVars>>

(* disconnect() returns *)
DisconnectReturns ==
    /\ unload.pc = "disconnect"
    /\ clients' = [clients EXCEPT ![unload.client].is_connected = FALSE,
                                  ![unload.client].notifying = FALSE]
    /\ unload' = [unload EXCEPT !.pc = IF unload.entry THEN "unload_platforms"
                                       ELSE "unloaded"]
    /\ UNCHANGED <<is_currently_subscribing, maybe_client, tasks, data,
                   publishes, advert, registered, decodeVars>>

(* async_unload_platforms and the entry's on-unload callbacks *)
UnloadPlatforms ==
    /\ unload.pc = "unload_platforms"
    /\ registered' = FALSE
    /\ unload' = [unload EXCEPT !.pc = "unloaded"]
    /\ UNCHANGED <<is_currently_subscribing, maybe_client, clients, tasks, data,
                   publishes, advert, decodeVars>>

Next ==
    \/ \E si \in ServiceInfos : async_process_advertisement(si)
    \/ \E c \in BOOLEAN : ScheduleSubscribe(c)
    \/ \E t \in DOMAIN tasks : TaskStart(t)
    \/ \E t \in DOMAIN tasks : ConnectReturns(t)
    \/ \E t \in DOMAIN tasks : ConnectRaises(t)
    \/ \E t \in DOMAIN tasks : StartNotifyReturns(t)
    \/ \E t \in DOMAIN tasks : StartNotifyRaises(t)
    \/ \E c \in DOMAIN clients : LinkDrop(c)
    \/ \E c \in DOMAIN clients, ps \in ProbeStatuses : notification_callback(c, ps)
    \/ maybe_disconnect_bt_client
    \/ DisconnectReturns
    \/ UnloadPlatforms

Spec == Init /\ [][Next]_vars

(***************************************************************************)
(* The decoder on its own: CptAdvertisingData applied to buffers whose     *)
(* temperature window (bytes 5..17) is `fill` everywhere except for one    *)
(* byte, which takes every value.                                          *)
(***************************************************************************)
WithWindow(bytes, window) ==
    [i \in 1..Len(bytes) |-> IF i \in 6..18 THEN window[i - 5] ELSE bytes[i]]

Windows ==
    { [i \in 1..13 |-> IF i = pos THEN val ELSE fill] :
        pos \in 1..13, val \in 0..255, fill \in {0, 255} }

(* a window whose low 56 bits are zero and whose high 48 bits are one:     *)
(* t1..t4 are count 0 and t6..t8 are count 8191                            *)
HalfWindow == <<0, 0, 0, 0, 0, 0, 0, 255, 255, 255, 255, 255, 255>>

(* a probe advertisement whose eight temperatures are all different *)
DistinctAdv == <<1, 18, 52, 171, 205,
                 16, 32, 48, 64, 80, 96, 112, 128, 144, 160, 176, 192, 208,
                 0, 0>>

(* DistinctAdv with every value at one of the bytes outside the window:    *)
(* product type (0), serial (1..4), mode/colour/id (18),                   *)
(* battery/virtual sensors (19)                                            *)
FieldInputs ==
    { WithByte(DistinctAdv, pos, val) : pos \in {0, 1, 2, 3, 4, 18, 19},
                                       val \in 0..255 }

(* buffers of every length up to MaxAdvLen, filled with 0 or 255 or cut    *)
(* from (or extending) DistinctAdv                                         *)
LengthInputs ==
    { [i \in 1..n |-> fill] : n \in 0..MaxAdvLen, fill \in {0, 255} }
        \cup { [i \in 1..n |-> IF i <= Len(DistinctAdv) THEN DistinctAdv[i] ELSE 170] :
                 n \in 0..MaxAdvLen }

DecodeInputs ==
    { WithWindow(BaseAdv, w) : w \in Windows \cup {HalfWindow} }
        \cup FieldInputs \cup LengthInputs

InitDecode ==
    /\ CoordInit
    /\ buf \in DecodeInputs
    /\ decoded = PyNone
    /\ notified = PyNone
    /\ sensor_data = PyNone
    /\ SinkInit

Decode ==
    /\ IsNone(decoded)
    /\ decoded' = CptAdvertisingData(buf)
    /\ UNCHANGED <<buf, notified, sensor_data, sinkVars, coordVars>>

(* _get_data_from_advertisement applied to a decoded advertisement *)
MapAdvertisement ==
    /\ ~IsNone(decoded)
    /\ ~IsRaised(decoded)
    /\ IsNone(sensor_data)
    /\ sensor_data' = _get_data_from_advertisement(decoded)
    /\ UNCHANGED <<buf, decoded, notified, sinkVars, coordVars>>

NextDecode == Decode \/ MapAdvertisement

SpecDecode == InitDecode /\ [][NextDecode]_vars

(***************************************************************************)
(* The notification mapper on its own:                                     *)
(* _get_data_from_probe_status_notification applied to probe statuses of   *)
(* every prediction mode and state.                                        *)
(***************************************************************************)
PredictionModes == {"NONE", "TIME_TO_REMOVAL", "REMOVAL_AND_RESTING", "RESERVED"}

PredictionStates ==
    {"PROBE_NOT_INSERTED", "PROBE_INSERTED", "WARMING", "PREDICTING",
     "REMOVAL_PREDICTION_DONE", "RESERVED_STATE", "UNKNOWN"}

(* set point in hundredths of a degree, fraction to removal in hundredths, *)
(* time in seconds                                                         *)
ProbeStatusInputs ==
    { [prediction_status |->
          [mode |-> m, state |-> st,
           prediction_set_point_temperature |-> sp,
           pecentage_to_removal |-> pc,
           prediction_value_seconds |-> sec]] :
        m \in PredictionModes, st \in PredictionStates,
        sp \in {0, 6300, 10000}, pc \in {0, 50, 100}, sec \in {0, 120} }

InitNotify ==
    /\ CoordInit
    /\ buf = <<>>
    /\ decoded = PyNone
    /\ notified \in ProbeStatusInputs
    /\ sensor_data = PyNone
    /\ SinkInit

MapNotification ==
    /\ ~IsNone(notified)
    /\ IsNone(sensor_data)
    /\ sensor_data' = Ok(_get_data_from_probe_status_notification(notified))
    /\ UNCHANGED <<buf, decoded, notified, sinkVars, coordVars>>

NextNotify == MapNotification

SpecNotify == InitNotify /\ [][NextNotify]_vars

(***************************************************************************)
(* The sensors on their own: mappings are published one after the other    *)
(* and every CPTSensor handles each update.                                *)
(***************************************************************************)
(* mutant: a sensor whose key is absent is cleared *)
HandleUpdateClearingAbsent(sensor, key, coordinator_data) ==
    IF key \notin DOMAIN coordinator_data
    THEN [native_value |-> PyNone, writes |-> sensor.writes + 1]
    ELSE [native_value |-> coordinator_data[key], writes |-> sensor.writes + 1]

(* CPTSensor._handle_coordinator_update, for the sensor of `key` *)
_handle_coordinator_update(sensor, key, coordinator_data) ==
    IF key \notin DOMAIN coordinator_data THEN sensor
    ELSE [native_value |-> coordinator_data[key], writes |-> sensor.writes + 1]

(* notification mappings: TimeToRemoval and Predicting, TimeToRemoval and   *)
(* Warming, not TimeToRemoval                                              *)
NotificationMappings ==
    { _get_data_from_probe_status_notification(
          [prediction_status |->
              [mode |-> ms[1], state |-> ms[2],
               prediction_set_point_temperature |-> 6300,
               pecentage_to_removal |-> 50,
               prediction_value_seconds |-> 120]]) :
        ms \in { <<"TIME_TO_REMOVAL", "PREDICTING">>,
                 <<"TIME_TO_REMOVAL", "WARMING">>,
                 <<"NONE", "PREDICTING">> } }

(* the mappings lines 127-147 build from a Normal and an InstantRead       *)
(* advertisement                                                           *)
AdvertisementMappings ==
    { ModeData(DecodedBuffers[b]).value :
        b \in {BaseAdv, WithByte(BaseAdv, 18, 1)} }

(* the mappings delivered to the sensors *)
SinkMappings == NotificationMappings \cup AdvertisementMappings

(* async_set_updated_data(mapping): coordinator.data is replaced and every *)
(* sensor's _handle_coordinator_update runs                                *)
UpdateSensors(published) ==
    /\ Len(history) < MaxUpdates
    /\ data' = published
    /\ history' = Append(history, published)
    /\ entities' = [k \in SensorKeys |->
                     _handle_coordinator_update(entities[k], k, published)]
    /\ UNCHANGED <<is_currently_subscribing, maybe_client, clients, tasks,
                   publishes, advert, unload, registered,
                   buf, decoded, notified, sensor_data>>

InitSensors ==
    /\ CoordInit
    /\ buf = <<>>
    /\ decoded = PyNone
    /\ notified = PyNone
    /\ sensor_data = PyNone
    /\ SinkInit

NextSensors == \E published \in SinkMappings : UpdateSensors(published)

SpecSensors == InitSensors /\ [][NextSensors]_vars

(***************************************************************************)
(* The enum sensors: the labels the two mappers produce and the options of *)
(* the sensor descriptions.  The advertisement mapper is applied to the    *)
(* advertisement as it reads it, with the attribute battery_status (the    *)
(* CptAdvertisement of combustion_inc/coordinator.py), and to the          *)
(* CptAdvertisingData of cpt_lib.py, which names it batery_status.         *)
(***************************************************************************)
BATTERY_STATE_OK == "OK"

BATTERY_STATE_LOW == "LOW"

BATTERY_STATE_UNKNOWN == "Unknown"

(* BATTERY_STATUS.options *)
BatteryStatusOptions ==
    {BATTERY_STATE_OK, BATTERY_STATE_LOW, BATTERY_STATE_UNKNOWN}

(* PREDICTION_STATUS.options *)
PredictionStatusOptions ==
    {PREDICTION_STATE_PREDICTING, PREDICTION_STATE_NOT_INSERTED,
     PREDICTION_STATE_PENDING, PREDICTION_STATE_INSERTED,
     PREDICTION_STATE_READY, PREDICTION_STATE_NOT_PREDICTING,
     PREDICTION_STATE_OTHER}

(* the decoded advertisement with the battery status under the name the    *)
(* mapper reads                                                            *)
WithBatteryAttribute(advertising_data) ==
    [a \in DOMAIN advertising_data \cup {"battery_status"} |->
        IF a = "battery_status" THEN advertising_data.batery_status
        ELSE advertising_data[a]]

(* Normal and InstantRead advertisements, battery OK and LOW *)
LabelBuffers ==
    { WithByte(WithByte(BaseAdv, 18, m), 19, b) : m \in {0, 1}, b \in {0, 128} }

AdvertisementsRead ==
    { CptAdvertisingData(b) : b \in LabelBuffers }
        \cup { WithBatteryAttribute(CptAdvertisingData(b)) : b \in LabelBuffers }

InitLabels ==
    /\ CoordInit
    /\ buf = <<>>
    /\ decoded \in AdvertisementsRead
    /\ notified \in ProbeStatusInputs
    /\ sensor_data = PyNone
    /\ SinkInit

NextLabels == MapAdvertisement \/ MapNotification

SpecLabels == InitLabels /\ [][NextLabels]_vars

(***************************************************************************)
(* Sightings of every product: the handler, the subscribe coroutine and    *)
(* the notifications, without teardown; buf keeps the manufacturer data of *)
(* the last sighting handled.                                              *)
(***************************************************************************)
(* the sightings of the coordinator model and those of the other product  *)
(* codes                                                                   *)
ProductSightings ==
    ServiceInfos \cup
        { [connectable |-> c,
           manufacturer_data |-> COMBUSTION_MANUFACTURER_ID :> b] :
            c \in BOOLEAN, b \in OtherProductBuffers }

(* service_info.manufacturer_data.get(COMBUSTION_MANUFACTURER_ID) *)
SightedBytes(service_info) ==
    LET raw_advertisement_data ==
            DictGet(service_info.manufacturer_data, COMBUSTION_MANUFACTURER_ID)
    IN  IF IsNone(raw_advertisement_data) THEN <<>>
        ELSE raw_advertisement_data.value

(* async_process_advertisement(service_info) *)
Sighting(service_info) ==
    /\ registered
    /\ HandleSighting(service_info, ProcessAdvertisement(service_info))
    /\ buf' = SightedBytes(service_info)
    /\ UNCHANGED <<decoded, notified, sensor_data, sinkVars>>

NextSightings ==
    \/ \E si \in ProductSightings : Sighting(si)
    \/ \E c \in BOOLEAN : ScheduleSubscribe(c)
    \/ \E t \in DOMAIN tasks : TaskStart(t)
    \/ \E t \in DOMAIN tasks : ConnectReturns(t)
    \/ \E t \in DOMAIN tasks : ConnectRaises(t)
    \/ \E t \in DOMAIN tasks : StartNotifyReturns(t)
    \/ \E t \in DOMAIN tasks : StartNotifyRaises(t)
    \/ \E c \in DOMAIN clients : LinkDrop(c)
    \/ \E c \in DOMAIN clients, ps \in ProbeStatuses : notification_callback(c, ps)

SpecSightings == Init /\ [][NextSightings]_vars

(***************************************************************************)
(* Properties                                                              *)
(***************************************************************************)
(* The abstract connection state of the coordinator. *)
CoordState ==
    IF is_currently_subscribing THEN "Subscribing"
    ELSE IF is_subscribed_to_notifications THEN "Subscribed"
    ELSE "Idle"

(* a connect/subscribe sequence is suspended in connect() or start_notify() *)
InFlight(t) == tasks[t].pc \in {"connect", "start_notify"}

Finished(t) == tasks[t].pc \in {"returned", "raised", "done"}

Connected == { c \in DOMAIN clients : clients[c].is_connected }

(* C1: single-flight.  While a connect/subscribe sequence is in flight, at *)
(* most one task is in it, no further BleakClient is created, no client    *)
(* has connect() called more than once, and every task that starts         *)
(* returns at once and leaves the connection state untouched.              *)
C1_SingleFlight ==
    /\ [](/\ Cardinality({t \in DOMAIN tasks : InFlight(t)}) <= 1
          /\ \A c \in DOMAIN clients : clients[c].connect_calls = 1)
    /\ [][(\E t \in DOMAIN tasks : InFlight(t)) =>
            /\ Len(clients') = Len(clients)
            /\ maybe_client' = maybe_client
            /\ \A t \in DOMAIN tasks :
                 (tasks[t].pc = "scheduled" /\ tasks'[t].pc # "scheduled") =>
                    /\ tasks'[t].pc = "returned"
                    /\ UNCHANGED <<is_currently_subscribing, maybe_client, clients>>
          ]_vars

(* one sequence is in flight, a second task has run and returned, and the  *)
(* only client is the one of the first sequence                            *)
C1_Witness ==
    \E t1, t2 \in DOMAIN tasks :
        /\ InFlight(t1)
        /\ tasks[t2].pc = "returned"
        /\ Len(clients) = 1

(* C2: the coordinator starts Idle and its abstract state only moves       *)
(* Idle->Subscribing, Subscribing->Subscribed, Subscribing->Idle and       *)
(* Subscribed->Idle.                                                       *)
AllowedTransitions ==
    { <<"Idle", "Subscribing">>, <<"Subscribing", "Subscribed">>,
      <<"Subscribing", "Idle">>, <<"Subscribed", "Idle">> }

C2_Transitions ==
    /\ CoordState = "Idle"
    /\ [][CoordState' = CoordState
          \/ <<CoordState, CoordState'>> \in AllowedTransitions]_vars

(* a sequence succeeded and the coordinator is Idle again: Idle,           *)
(* Subscribing, Subscribed and back to Idle have all been passed           *)
C2_Witness ==
    /\ CoordState = "Idle"
    /\ \E t \in DOMAIN tasks : tasks[t].pc = "done"

(* C3: when a connect/subscribe sequence fails (connect() raises,          *)
(* start_notify() raises, no connectable device), the coordinator is Idle  *)
(* as the task ends.                                                       *)
C3_FailureReturnsToIdle ==
    [][\A t \in DOMAIN tasks :
          (tasks[t].pc # "raised" /\ tasks'[t].pc = "raised") =>
              (CoordState' = "Idle")]_vars

(* connect() was awaited and the sequence failed, with the flag still set *)
C3_Witness ==
    /\ \E t \in DOMAIN tasks : tasks[t].pc = "raised"
    /\ Len(clients) = 1
    /\ is_currently_subscribing

(* C4: no permanent lock-out.  The coordinator only refuses sightings      *)
(* (is_currently_subscribing) while a sequence is actually in flight.      *)
C4_NoLockOut ==
    is_currently_subscribing => \E t \in DOMAIN tasks : InFlight(t)

(* a sequence failed and a later task, started with no sequence in flight *)
(* and no connected client, was refused                                    *)
C4_Witness ==
    /\ \E t1, t2 \in DOMAIN tasks :
          /\ t1 < t2
          /\ tasks[t1].pc = "raised"
          /\ tasks[t2].pc = "returned"
    /\ Connected = {}
    /\ Len(clients) <= 1

(* C5: teardown.  Once the unload and every subscribe task have run to     *)
(* completion (no task failed, none was created after the unload began),   *)
(* the coordinator is Idle, holds no connected client, and no client was   *)
(* disconnected more than once.                                            *)
C5_TeardownLeavesIdle ==
    ( /\ unload.pc = "unloaded"
      /\ ~unload.raced
      /\ \A t \in DOMAIN tasks : tasks[t].pc \in {"returned", "done"} )
    => /\ CoordState = "Idle"
       /\ Connected = {}
       /\ \A c \in DOMAIN clients : clients[c].disconnect_calls <= 1

(* the unload ran while connect() was suspended, the sequence then         *)
(* completed, and the unloaded coordinator is Subscribed                   *)
C5_Witness ==
    /\ unload.pc = "unloaded"
    /\ ~unload.raced
    /\ \A t \in DOMAIN tasks : tasks[t].pc \in {"returned", "done"}
    /\ CoordState = "Subscribed"

(* C6: at most one BleakClient of the coordinator is connected, it is the  *)
(* one _maybe_client holds, and _maybe_client is only replaced when the    *)
(* previous client is absent or not connected.                             *)
C6_OneConnectedClient ==
    /\ [](/\ Cardinality(Connected) <= 1
          /\ Connected \subseteq {maybe_client})
    /\ [][maybe_client' # maybe_client =>
            (maybe_client = NoClient \/ ~clients[maybe_client].is_connected)]_vars

(* a second client has replaced a first one that lost its link, and is     *)
(* connected                                                               *)
C6_Witness ==
    /\ Len(clients) = 2
    /\ maybe_client = 2
    /\ clients[2].is_connected
    /\ ~clients[1].is_connected

(* a sighting of a predictive probe whose advertisement decodes *)
DecodesAsProbe(si) ==
    LET advertisement == _extract_advertisement(si)
    IN  /\ ~IsRaised(advertisement)
        /\ advertisement.product_type = "PREDICTIVE_PROBE"

(* The connection half of C7: a non-connectable sighting creates no        *)
(* subscribe task and leaves is_currently_subscribing and _maybe_client    *)
(* (and every client) unchanged, whatever the coordinator state.           *)
PassiveSightingNeverConnects ==
    [][\A si \in ServiceInfos :
          (~si.connectable /\ async_process_advertisement(si)) =>
              UNCHANGED <<tasks, is_currently_subscribing, maybe_client, clients>>
      ]_vars

(* C7: a non-connectable probe sighting publishes the advertisement's      *)
(* measurements and does nothing else: no subscribe task is created and    *)
(* is_currently_subscribing and _maybe_client are unchanged.               *)
C7_PassiveSightingOnlyPublishes ==
    [][\A si \in ServiceInfos :
          (~si.connectable /\ DecodesAsProbe(si)
             /\ async_process_advertisement(si)) =>
              /\ publishes' = publishes + 1
              /\ UNCHANGED <<tasks, is_currently_subscribing, maybe_client,
                             clients>>
      ]_vars

(* a non-connectable probe sighting has been processed while a sequence    *)
(* was pending: the handler ended in the AttributeError of line 200        *)
C7_Witness ==
    /\ advert.result = "AttributeError"
    /\ ~advert.connectable
    /\ CoordState = "Subscribing"

(* C8: every probe sighting whose advertisement decodes is published:      *)
(* async_set_updated_data is called exactly once by the handler, whatever  *)
(* the connection state and whether or not the sighting is connectable.    *)
C8_DecodedSightingPublishes ==
    [][\A si \in ServiceInfos :
          (DecodesAsProbe(si) /\ async_process_advertisement(si)) =>
              publishes' = publishes + 1]_vars

(* a connectable probe sighting has been processed while Subscribed and    *)
(* nothing was ever published                                              *)
C8_Witness ==
    /\ advert.result = "AttributeError"
    /\ advert.connectable
    /\ CoordState = "Subscribed"
    /\ publishes = 0

(* C9: a decode error (ValueError of _extract_advertisement) is never      *)
(* raised out of async_process_advertisement.                              *)
C9_DecodeErrorNotRaised == advert.result # "ValueError"

(* a sighting that does not decode has been processed: nothing was         *)
(* published and no task was created, and the handler ended in ValueError  *)
C9_Witness ==
    /\ advert.result = "ValueError"
    /\ publishes = 0
    /\ tasks = <<>>

(***************************************************************************)
(* C10: the temperature window read as a 104-bit little-endian integer.    *)
(***************************************************************************)
(* bit i (0..103) of the window: bit i % 8 of byte i \div 8 *)
WindowBit(window, i) == (window[(i \div 8) + 1] \div (2 ^ (i % 8))) % 2

RECURSIVE FieldFrom(_, _, _)
FieldFrom(window, offset, j) ==
    IF j = 13 THEN 0
    ELSE WindowBit(window, offset + j) * (2 ^ j) + FieldFrom(window, offset, j + 1)

(* the 13-bit field at bit offset 13 * (k - 1) *)
Field(window, k) == FieldFrom(window, 13 * (k - 1), 0)

RECURSIVE PopCount(_)
PopCount(n) == IF n = 0 THEN 0 ELSE (n % 2) + PopCount(n \div 2)

RECURSIVE SumPopCount(_)
SumPopCount(seq) ==
    IF seq = <<>> THEN 0 ELSE PopCount(Head(seq)) + SumPopCount(Tail(seq))

(* the count a decoded temperature came from *)
CountOf(temp) == (temp + 2000) \div 5

(* C10: the decoder yields 8 temperatures; temperature k is the image of   *)
(* the 13-bit little-endian field k of the window, a count in 0..8191, and *)
(* the counts together carry exactly the bits of the window.               *)
C10_ThirteenBitFields ==
    (~IsNone(decoded) /\ ~IsRaised(decoded)) =>
        LET window == Slice(buf, 5, 18)
            temps == decoded.raw_temperatures.temperatures
            counts == [k \in 1..Len(temps) |-> CountOf(temps[k])]
        IN  /\ Len(temps) = 8
            /\ \A k \in 1..8 :
                 /\ temps[k] = ToCelsius(Field(window, k))
                 /\ counts[k] \in 0..8191
            /\ decoded.raw_temperatures.t1 = ToCelsius(Field(window, 1))
            /\ decoded.raw_temperatures.t8 = ToCelsius(Field(window, 8))
            /\ SumPopCount(counts) = SumPopCount(window)

(* a window of ones whose last byte (advertisement byte 17) is zero: t1 is *)
(* 8191 and t8 keeps only the high 5 bits of byte 16                       *)
C10_Witness ==
    /\ ~IsNone(decoded)
    /\ ~IsRaised(decoded)
    /\ At(buf, 17) = 0
    /\ decoded.raw_temperatures.t1 = ToCelsius(8191)
    /\ decoded.raw_temperatures.t8 = ToCelsius(31)

(***************************************************************************)
(* C11..C16: the fields of the decoded advertisement, stated with integer  *)
(* division and remainder on the bytes of the buffer.                      *)
(***************************************************************************)
(* the decoder has run on buf and returned an object *)
Decoded == ~IsNone(decoded) /\ ~IsRaised(decoded)

(* bit i of a byte, and the field of `width` bits that starts at bit `low` *)
BitOf(byte, i) == (byte \div (2 ^ i)) % 2

BitsOf(byte, low, width) == (byte \div (2 ^ low)) % (2 ^ width)

(* a byte with bit i flipped *)
FlipBit(byte, i) == IF BitOf(byte, i) = 1 THEN byte - 2 ^ i ELSE byte + 2 ^ i

(* buf with bit i of byte 19 flipped, decoded *)
DecodedWithFlip19(i) ==
    CptAdvertisingData(WithByte(buf, 19, FlipBit(At(buf, 19), i)))

(* C11: byte 19 is battery = bit 7, core index = bits 0-2, surface index   *)
(* = bits 3-4, ambient index = bits 5-6; flipping bit 7 changes only the   *)
(* battery status and flipping one of bits 0-6 never changes it.           *)
C11_Byte19Layout ==
    Decoded =>
        LET b == At(buf, 19)
            temps == decoded.raw_temperatures.temperatures
        IN  /\ decoded.batery_status = (IF BitOf(b, 7) = 1 THEN "LOW" ELSE "OK")
            /\ decoded.virtual_sensors.core = temps[BitsOf(b, 0, 3) + 1]
            /\ decoded.virtual_sensors.surface = temps[BitsOf(b, 3, 2) + 4]
            /\ decoded.virtual_sensors.ambient = temps[BitsOf(b, 5, 2) + 5]
            /\ DecodedWithFlip19(7).virtual_sensors = decoded.virtual_sensors
            /\ DecodedWithFlip19(7).batery_status # decoded.batery_status
            /\ \A i \in 0..6 :
                 DecodedWithFlip19(i).batery_status = decoded.batery_status

(* byte 19 is 0x80 on the buffer of eight different temperatures: the      *)
(* battery is LOW and the ambient reading has moved from t5 to t7          *)
C11_Witness ==
    /\ Decoded
    /\ buf = WithByte(DistinctAdv, 19, 128)
    /\ decoded.batery_status = "LOW"
    /\ decoded.virtual_sensors.ambient = decoded.raw_temperatures.t7
    /\ decoded.virtual_sensors.ambient # decoded.raw_temperatures.t5

(* C12: whatever byte 19 is, decoding uses no index outside the list of    *)
(* eight temperatures; the core reading is one of t1..t8, the surface      *)
(* reading one of t4..t7 and the ambient reading one of t5..t8, each the   *)
(* temperature at the index its bits select.                               *)
C12_VirtualSensorWindows ==
    (~IsNone(decoded) /\ Len(buf) >= 20) =>
        /\ decoded # Raise("IndexError")
        /\ Decoded =>
            LET b == At(buf, 19)
                temps == decoded.raw_temperatures.temperatures
                sensors == decoded.virtual_sensors
            IN  /\ Len(temps) = 8
                /\ sensors.core \in { temps[k] : k \in 1..8 }
                /\ sensors.surface \in { temps[k] : k \in 4..7 }
                /\ sensors.ambient \in { temps[k] : k \in 5..8 }
                /\ sensors.core = temps[BitsOf(b, 1, 3) + 1]
                /\ sensors.surface = temps[BitsOf(b, 4, 2) + 3 + 1]
                /\ sensors.ambient = temps[BitsOf(b, 6, 2) + 4 + 1]

(* byte 19 is 0xFF on the buffer of eight different temperatures: every    *)
(* index is at its maximum, the readings are t8, t7 and t8                 *)
C12_Witness ==
    /\ Decoded
    /\ buf = WithByte(DistinctAdv, 19, 255)
    /\ decoded.virtual_sensors.core = decoded.raw_temperatures.t8
    /\ decoded.virtual_sensors.surface = decoded.raw_temperatures.t7
    /\ decoded.virtual_sensors.ambient = decoded.raw_temperatures.t8

(* C13: constructing CptAdvertisingData raises exactly when the buffer is  *)
(* shorter than 20 bytes (ValueError); a buffer of 20 bytes or more        *)
(* decodes to an object whatever its bytes are.                            *)
C13_FailsExactlyWhenShort ==
    ~IsNone(decoded) =>
        /\ IsRaised(decoded) <=> Len(buf) < 20
        /\ Len(buf) < 20 => decoded = Raise("ValueError")
        /\ Len(buf) >= 20 =>
              DOMAIN decoded = {"product_type", "serial", "raw_temperatures",
                                "mode", "colour", "probe_id", "batery_status",
                                "virtual_sensors"}

(* the buffer of 20 bytes 0xFF has been decoded: mode 3, colour code 7,    *)
(* product code 255, battery bit 1, every sensor index at its maximum      *)
C13_Witness ==
    /\ buf = [i \in 1..20 |-> 255]
    /\ Decoded
    /\ decoded.mode = "ERROR"
    /\ decoded.colour = "UNKNOWN"
    /\ decoded.product_type = "UNKNOWN"

(* a buffer of 19 bytes has been rejected *)
C13_ShortRejected ==
    /\ Len(buf) = 19
    /\ ~IsNone(decoded)
    /\ IsRaised(decoded)

(* buf with bit i of byte 18 flipped, decoded *)
DecodedWithFlip18(i) ==
    CptAdvertisingData(WithByte(buf, 18, FlipBit(At(buf, 18), i)))

(* C14: byte 18 is mode = bits 0-1 (Normal, InstantRead, Reserved, Error), *)
(* colour = bits 2-4 (0 Yellow, 1 Grey, 2..7 Unknown) and probe_id = bits  *)
(* 5-7 (0..7); a bit of one field changes neither of the other two.        *)
C14_Byte18Layout ==
    Decoded =>
        LET b == At(buf, 18)
            mode_code == BitsOf(b, 0, 2)
            colour_code == BitsOf(b, 2, 3)
        IN  /\ decoded.mode =
                  <<"NORMAL", "INSTANT_READ", "RESERVED", "ERROR">>[mode_code + 1]
            /\ decoded.colour =
                  (CASE colour_code = 0 -> "YELLOW"
                     [] colour_code = 1 -> "GREY"
                     [] OTHER -> "UNKNOWN")
            /\ decoded.probe_id = BitsOf(b, 5, 3)
            /\ decoded.probe_id \in 0..7
            /\ \A i \in 0..7 :
                 LET flipped == DecodedWithFlip18(i)
                 IN  /\ ~IsRaised(flipped)
                     /\ i \notin 0..1 => flipped.mode = decoded.mode
                     /\ i \notin 2..4 => flipped.colour = decoded.colour
                     /\ i \notin 5..7 => flipped.probe_id = decoded.probe_id

(* byte 18 is 0xA6: mode 2 (Reserved), colour code 1 (Grey), probe id 5 *)
C14_Witness ==
    /\ Decoded
    /\ At(buf, 18) = 166
    /\ decoded.mode = "RESERVED"
    /\ decoded.colour = "GREY"
    /\ decoded.probe_id = 5

(* the eight 13-bit fields of a window *)
Fields(window) ==
    <<Field(window, 1), Field(window, 2), Field(window, 3), Field(window, 4),
      Field(window, 5), Field(window, 6), Field(window, 7), Field(window, 8)>>

(* the temperatures are the affine image of the counts *)
AffineOn(counts, temps) ==
    /\ \A k \in 1..8 :
         /\ temps[k] = 5 * counts[k] - 2000
         /\ temps[k] >= -2000
         /\ temps[k] <= 38955
         /\ counts[k] = 0 => temps[k] = -2000
         /\ counts[k] = 8191 => temps[k] = 38955
    /\ \A j, k \in 1..8 : counts[j] < counts[k] => temps[j] < temps[k]

(* C15: each decoded temperature is 5 * count - 2000 hundredths of a       *)
(* degree (count * 0.05 - 20.0) for its 13-bit count, hence between -20.00 *)
(* and 389.55, -20.00 for count 0 and 389.55 for count 8191, and a larger  *)
(* count gives a larger temperature.                                       *)
C15_AffineTemperature ==
    Decoded =>
        AffineOn(Fields(Slice(buf, 5, 18)),
                 decoded.raw_temperatures.temperatures)

(* the window whose first fields are count 0 and whose last fields are     *)
(* count 8191: t1 is -20.00 and t8 is 389.55                               *)
C15_Witness ==
    /\ Decoded
    /\ Slice(buf, 5, 18) = HalfWindow
    /\ decoded.raw_temperatures.t1 = -2000
    /\ decoded.raw_temperatures.t8 = 38955

(* the sixteen uppercase hexadecimal digits, and the value of one *)
UpperHexDigits == <<"0", "1", "2", "3", "4", "5", "6", "7",
                    "8", "9", "A", "B", "C", "D", "E", "F">>

HexValueOf(c) == CHOOSE v \in 0..15 : UpperHexDigits[v + 1] = c

(* the two uppercase digits of a byte *)
TwoDigits(byte) ==
    <<UpperHexDigits[(byte \div 16) + 1], UpperHexDigits[(byte % 16) + 1]>>

(* the byte a pair of digits of the serial stands for *)
ByteOfDigits(serial, i) ==
    16 * HexValueOf(serial[2 * i - 1]) + HexValueOf(serial[2 * i])

(* C16: the serial is the bytes at offsets 4, 3, 2, 1 of the buffer, in    *)
(* that order, as 8 uppercase hexadecimal characters; bytes 1..4 can be    *)
(* read back from it (so different bytes give different serials) and no    *)
(* other byte of the buffer enters it.                                     *)
C16_SerialReversedUpperHex ==
    Decoded =>
        LET serial == decoded.serial
        IN  /\ Len(serial) = 8
            /\ \A i \in 1..8 : \E v \in 1..16 : serial[i] = UpperHexDigits[v]
            /\ serial = TwoDigits(At(buf, 4)) \o TwoDigits(At(buf, 3))
                            \o TwoDigits(At(buf, 2)) \o TwoDigits(At(buf, 1))
            /\ <<ByteOfDigits(serial, 4), ByteOfDigits(serial, 3),
                  ByteOfDigits(serial, 2), ByteOfDigits(serial, 1)>>
                   = Slice(buf, 1, 5)

(* bytes 1..4 are 12 34 AB CD and the serial is CDAB3412 *)
C16_Witness ==
    /\ Decoded
    /\ Slice(buf, 1, 5) = <<18, 52, 171, 205>>
    /\ decoded.serial = <<"C", "D", "A", "B", "3", "4", "1", "2">>

(***************************************************************************)
(* C17..C19: the advertisement mapping                                     *)
(***************************************************************************)
(* _get_data_from_advertisement has run on the decoded advertisement *)
Mapped == Decoded /\ ~IsNone(sensor_data)

RawTemperatureKey(i) == "t" \o ToString(i) \o "_temperature"

(* The part of C17 that concerns lines 127-147: before the battery status  *)
(* is added, the mapping is {instant_read_temp: t1} in InstantRead mode    *)
(* and has no instant_read_temp in any other mode.                         *)
ModeGatingBeforeBattery ==
    Mapped =>
        LET built == ModeData(decoded)
        IN  /\ ~IsRaised(built)
            /\ IF decoded.mode = "INSTANT_READ"
               THEN built.value = ("instant_read_temp" :>
                                     Num(decoded.raw_temperatures.t1))
               ELSE "instant_read_temp" \notin DOMAIN built.value

(* C17: the advertisement mapping contains instant_read_temp exactly when  *)
(* the mode is InstantRead; in that mode its keys are instant_read_temp    *)
(* and battery_status only, with instant_read_temp = t1.                   *)
C17_ModeGating ==
    Mapped =>
        /\ ~IsRaised(sensor_data)
        /\ ("instant_read_temp" \in DOMAIN sensor_data.value)
              <=> (decoded.mode = "INSTANT_READ")
        /\ decoded.mode = "INSTANT_READ" =>
              /\ DOMAIN sensor_data.value = {"instant_read_temp", "battery_status"}
              /\ sensor_data.value["instant_read_temp"]
                    = Num(decoded.raw_temperatures.t1)

(* an InstantRead advertisement has been mapped: lines 127-147 built       *)
(* {instant_read_temp}, and the mapper then raised AttributeError          *)
C17_Witness ==
    /\ Mapped
    /\ decoded.mode = "INSTANT_READ"
    /\ DOMAIN ModeData(decoded).value = {"instant_read_temp"}
    /\ sensor_data = Raise("AttributeError")

(* C18: in every mode other than InstantRead, lines 132-147 put into the   *)
(* mapping the eight keys t1_temperature .. t8_temperature with the        *)
(* decoded t1..t8, and core_temperature, surface_temperature and           *)
(* ambient_temperature with the virtual sensor values.                     *)
C18_RawAndVirtualKeys ==
    (Mapped /\ decoded.mode # "INSTANT_READ") =>
        LET built == ModeData(decoded)
            temps == decoded.raw_temperatures.temperatures
        IN  /\ ~IsRaised(built)
            /\ \A i \in 1..8 :
                 /\ RawTemperatureKey(i) \in DOMAIN built.value
                 /\ built.value[RawTemperatureKey(i)] = Num(temps[i])
            /\ {"core_temperature", "surface_temperature", "ambient_temperature"}
                  \subseteq DOMAIN built.value
            /\ built.value["core_temperature"] = Num(decoded.virtual_sensors.core)
            /\ built.value["surface_temperature"]
                  = Num(decoded.virtual_sensors.surface)
            /\ built.value["ambient_temperature"]
                  = Num(decoded.virtual_sensors.ambient)

(* a Normal-mode advertisement has been mapped: t1..t7 and the three       *)
(* virtual sensors are in the mapping, t8_temperature is not               *)
C18_Witness ==
    /\ Mapped
    /\ decoded.mode = "NORMAL"
    /\ DOMAIN ModeData(decoded).value =
          { RawTemperatureKey(i) : i \in 1..7 }
              \cup {"core_temperature", "surface_temperature", "ambient_temperature"}
    /\ ModeData(decoded).value["t7_temperature"] = Num(decoded.raw_temperatures.t7)

(* C19: every advertisement mapping contains battery_status, "OK" when the *)
(* decoder set the battery status OK and "Low" when it set LOW.            *)
C19_BatteryLabel ==
    Mapped =>
        /\ ~IsRaised(sensor_data)
        /\ "battery_status" \in DOMAIN sensor_data.value
        /\ sensor_data.value["battery_status"] \in {Str("OK"), Str("Low"), Str("Unknown")}
        /\ decoded.batery_status = "OK" =>
              sensor_data.value["battery_status"] = Str("OK")
        /\ decoded.batery_status = "LOW" =>
              sensor_data.value["battery_status"] = Str("Low")

(* a decoded advertisement with the battery bit set has been mapped: the   *)
(* decoder set batery_status, the mapper read battery_status and raised    *)
C19_Witness ==
    /\ Mapped
    /\ HasAttr(decoded, "batery_status")
    /\ ~HasAttr(decoded, "battery_status")
    /\ decoded.batery_status = "LOW"
    /\ sensor_data = Raise("AttributeError")

(***************************************************************************)
(* C20: the notification mapping                                           *)
(***************************************************************************)
(* the label of each prediction state *)
PredictionStatusTable(state) ==
    CASE state = "PREDICTING" -> "predicting"
      [] state = "PROBE_NOT_INSERTED" -> "not_inserted"
      [] state = "WARMING" -> "pending"
      [] state = "PROBE_INSERTED" -> "inserted"
      [] state = "REMOVAL_PREDICTION_DONE" -> "ready"
      [] OTHER -> "other"

(* C20: in TimeToRemoval mode, prediction_status is the label of the       *)
(* prediction state in the fixed table, cooking_to_temp is the set-point   *)
(* temperature and percent_through_cook is the fraction to removal times   *)
(* 100.                                                                    *)
C20_TimeToRemovalMapping ==
    (~IsNone(sensor_data) /\ ~IsNone(notified)
        /\ notified.prediction_status.mode = "TIME_TO_REMOVAL") =>
        LET ps == notified.prediction_status
            m == sensor_data.value
        IN  /\ m["prediction_status"] = Str(PredictionStatusTable(ps.state))
            /\ m["cooking_to_temp"] = Num(ps.prediction_set_point_temperature)
            /\ m["percent_through_cook"] = Num(ps.pecentage_to_removal * 100)

(* a TimeToRemoval notification in the Warming state, half way to removal, *)
(* has been mapped to "pending" and 50 percent                             *)
C20_Witness ==
    /\ ~IsNone(sensor_data)
    /\ ~IsNone(notified)
    /\ notified.prediction_status.mode = "TIME_TO_REMOVAL"
    /\ notified.prediction_status.state = "WARMING"
    /\ notified.prediction_status.pecentage_to_removal = 50
    /\ sensor_data.value["prediction_status"] = Str("pending")
    /\ sensor_data.value["percent_through_cook"] = Num(5000)

(* the notification mapper has run on the probe status `notified` *)
NotificationMapped == ~IsNone(notified) /\ ~IsNone(sensor_data)

(* C21: every notification mapping has exactly the keys cooking_to_temp,   *)
(* percent_through_cook, ready_in_time and prediction_status;              *)
(* ready_in_time is a number exactly when the mode is TimeToRemoval and    *)
(* the state is Predicting; outside TimeToRemoval the three numeric keys   *)
(* are None and prediction_status is "not_predicting".                     *)
C21_NotificationKeys ==
    NotificationMapped =>
        LET ps == notified.prediction_status
            m == sensor_data.value
        IN  /\ DOMAIN m = {"cooking_to_temp", "percent_through_cook",
                           "ready_in_time", "prediction_status"}
            /\ ~IsNone(m["ready_in_time"])
                  <=> (ps.mode = "TIME_TO_REMOVAL" /\ ps.state = "PREDICTING")
            /\ ps.mode # "TIME_TO_REMOVAL" =>
                  /\ m["cooking_to_temp"] = PyNone
                  /\ m["percent_through_cook"] = PyNone
                  /\ m["ready_in_time"] = PyNone
                  /\ m["prediction_status"] = Str("not_predicting")

(* a notification in Predicting state but not in TimeToRemoval mode has    *)
(* been mapped: every value is None but the status                         *)
C21_Witness ==
    /\ NotificationMapped
    /\ notified.prediction_status.mode = "REMOVAL_AND_RESTING"
    /\ notified.prediction_status.state = "PREDICTING"
    /\ sensor_data.value["ready_in_time"] = PyNone
    /\ sensor_data.value["prediction_status"] = Str("not_predicting")

(***************************************************************************)
(* C22: partial updates at the sensors                                     *)
(***************************************************************************)
(* the positions of the history whose mapping contains `key` *)
UpdatesWith(key) == { i \in DOMAIN history : key \in DOMAIN history[i] }

Latest(positions) == CHOOSE i \in positions : \A j \in positions : j <= i

(* the value of the most recent published mapping that contains `key` *)
LastPublished(key) ==
    IF UpdatesWith(key) = {} THEN PyNone
    ELSE history[Latest(UpdatesWith(key))][key]

(* C22: on an update, a sensor whose key is absent from the published      *)
(* mapping keeps its value and writes no state, and a sensor whose key is  *)
(* present takes the published value (None included) and writes its        *)
(* state; so each sensor always holds the value of the most recent mapping *)
(* that contained its key.                                                 *)
C22_PartialUpdateMerge ==
    /\ [](\A k \in SensorKeys :
            /\ entities[k].native_value = LastPublished(k)
            /\ entities[k].writes = Cardinality(UpdatesWith(k)))
    /\ [][\A published \in SinkMappings : UpdateSensors(published) =>
            \A k \in SensorKeys :
                IF k \in DOMAIN published
                THEN /\ entities'[k].native_value = published[k]
                     /\ entities'[k].writes = entities[k].writes + 1
                ELSE entities'[k] = entities[k]
          ]_vars

(* an advertisement-stage mapping, then a TimeToRemoval notification, then *)
(* a notification outside TimeToRemoval: t1 keeps the advertisement's      *)
(* value through both notifications, ready_in_time took 120 and then None  *)
C22_Witness ==
    /\ Len(history) = 3
    /\ "t1_temperature" \in DOMAIN history[1]
    /\ "ready_in_time" \in DOMAIN history[2] \cap DOMAIN history[3]
    /\ history[2]["ready_in_time"] = Num(120)
    /\ history[3]["ready_in_time"] = PyNone
    /\ entities["t1_temperature"].native_value = history[1]["t1_temperature"]
    /\ entities["t1_temperature"].writes = 1
    /\ entities["ready_in_time"].native_value = PyNone
    /\ entities["ready_in_time"].writes = 2

(***************************************************************************)
(* C23: the unload race                                                    *)
(***************************************************************************)
Unloaded == unload.entry /\ unload.pc = "unloaded"

(* the only subscribe task there is was created after async_unload_entry   *)
(* had begun, while the callback was still registered                      *)
StartedDuringUnload == unload.raced /\ Len(tasks) = 1

(* a sequence scheduled in that window creates no BleakClient and connects *)
(* none                                                                    *)
C23_NoSequenceDuringUnload ==
    [][StartedDuringUnload =>
          /\ Len(clients') = Len(clients)
          /\ Connected' \subseteq Connected]_vars

C23_NoClientAfterUnload == [](Unloaded => ~is_subscribed_to_notifications)

C23_NoPublishAfterUnload == [][Unloaded => data' = data]_vars

(* C23: a sequence scheduled after async_unload_entry has begun and before *)
(* the callback is unregistered creates no BleakClient and connects none;  *)
(* once the unload has completed the coordinator holds no connected client *)
(* and publishes no notification-derived update.                           *)
C23_UnloadRace ==
    /\ C23_NoSequenceDuringUnload
    /\ C23_NoClientAfterUnload
    /\ C23_NoPublishAfterUnload

(* the sequence was started while disconnect() was suspended, the unload   *)
(* completed, and the unloaded coordinator is subscribed and has published *)
(* a notification                                                          *)
C23_Witness ==
    /\ Unloaded
    /\ StartedDuringUnload
    /\ is_subscribed_to_notifications
    /\ clients[maybe_client].notifying
    /\ publishes > 0

(***************************************************************************)
(* C24: reconnect after link loss                                          *)
(***************************************************************************)
(* the coordinator was Subscribed and the link of its client dropped, no   *)
(* unload having been called: a client is held whose sequence completed    *)
(* (the flag is cleared only at line 192) and which is not connected       *)
LinkLost ==
    /\ unload.calls = 0
    /\ ~is_currently_subscribing
    /\ maybe_client # NoClient
    /\ ~clients[maybe_client].is_connected

(* task t runs from its start to its first suspension or return *)
Starts(t) == tasks[t].pc = "scheduled" /\ tasks'[t].pc # "scheduled"

C25_SubscribedMeansNotifying ==
    is_subscribed_to_notifications =>
        /\ clients[maybe_client].notifying
        /\ ~is_currently_subscribing

(* start_notify raised for the current client, which stays connected: the  *)
(* property is true although no subscription was made and the flag is set  *)
C25_Witness ==
    /\ is_subscribed_to_notifications
    /\ is_currently_subscribing
    /\ ~clients[maybe_client].notifying
    /\ Len(tasks) = 1
    /\ tasks[1].pc = "raised"

(***************************************************************************)
(* C26: advertisement keys and notification keys                           *)
(***************************************************************************)
(* the keys _get_data_from_advertisement assigns: those of lines 127-147   *)
(* and the battery status of line 150                                      *)
AdvertisementKeySets ==
    { DOMAIN ModeData(DecodedBuffers[b]).value \cup {BATTERY_STATUS} :
        b \in { c \in AdvBuffers : ~IsRaised(ModeData(DecodedBuffers[c])) } }

NotificationKeySets ==
    { DOMAIN _get_data_from_probe_status_notification(ps) :
        ps \in ProbeStatusInputs }

PredictionKeys ==
    {COOKING_TO_TEMP, READY_IN_TIME, PERCENT_THROUGH_COOK, PREDICTION_STATUS}

(* C26: no key of an advertisement mapping is a key of a notification      *)
(* mapping; an update with a notification mapping changes no temperature   *)
(* or battery sensor, and an update with an advertisement mapping changes  *)
(* no prediction sensor.                                                   *)
C26_DisjointKeys ==
    /\ [](\A a \in AdvertisementKeySets, n \in NotificationKeySets :
            a \cap n = {})
    /\ [][\A published \in NotificationMappings : UpdateSensors(published) =>
            \A k \in SensorKeys \ PredictionKeys : entities'[k] = entities[k]
          ]_vars
    /\ [][\A published \in AdvertisementMappings : UpdateSensors(published) =>
            \A k \in PredictionKeys \cap SensorKeys : entities'[k] = entities[k]
          ]_vars

(* a Normal advertisement-stage mapping, a TimeToRemoval notification and  *)
(* an InstantRead advertisement-stage mapping: the notification left t1    *)
(* alone, the second advertisement left ready_in_time alone                *)
C26_Witness ==
    /\ Len(history) = 3
    /\ "t1_temperature" \in DOMAIN history[1]
    /\ history[2] \in NotificationMappings
    /\ "instant_read_temp" \in DOMAIN history[3]
    /\ entities["t1_temperature"].native_value = history[1]["t1_temperature"]
    /\ entities["ready_in_time"].native_value = Num(120)
    /\ entities["ready_in_time"].writes = 1
    /\ entities["instant_read_temp"].writes = 1

OtherProductSightings ==
    { si \in ProductSightings :
        LET advertisement == _extract_advertisement(si)
        IN  /\ ~IsRaised(advertisement)
            /\ advertisement.product_type \in {"UNKNOWN", "KITCHEN_TIMER"} }

(* C28: a sighting whose decoded product type is not PredictiveProbe,      *)
(* connectable or not, creates no subscribe task and leaves                *)
(* is_currently_subscribing, _maybe_client, every client and the published *)
(* data unchanged, whatever the coordinator state; every product code      *)
(* other than 1 decodes to such a type.                                    *)
C28_OtherProductIgnored ==
    /\ [](\A code \in (0..255) \ {1} :
            parse_product_type(code) \in {"UNKNOWN", "KITCHEN_TIMER"})
    /\ [][\A si \in OtherProductSightings :
            Sighting(si) =>
                UNCHANGED <<tasks, is_currently_subscribing, maybe_client,
                            clients, data, publishes>>
        ]_vars

(* a connectable sighting with the unrecognised product code 9 has been    *)
(* handled while the coordinator was Idle with no task: no task was        *)
(* created and nothing was published                                       *)
C28_Witness ==
    /\ buf = WithByte(BaseAdv, 0, 9)
    /\ parse_product_type(At(buf, 0)) = "UNKNOWN"
    /\ advert.connectable
    /\ advert.result = "AttributeError"
    /\ tasks = <<>>
    /\ CoordState = "Idle"
    /\ publishes = 0

====
